---- MODULE Spec2Model ----
(***************************************************************************)
(* Order lifecycle and payment confirmation of the MERN API: the order     *)
(* routes (POST /orders, PUT /orders/:id/cancel, PUT /orders/:id/status)   *)
(* and the payment routes (create-razorpay-order, verify-payment, webhook, *)
(* refund); the catalogue routes that bear on orders and reviews (PUT      *)
(* /products/:id, POST /products/:id/reviews); and the sessions of the     *)
(* auth routes (login, refresh, logout).  Every handler is cut at its      *)
(* awaits: the code between two awaits runs without interruption, and the  *)
(* database operation a handler awaits takes effect in the step that       *)
(* follows.  A request slot holds one HTTP request from its arrival to its *)
(* response.  Spec is the whole API; the specifications after it each run  *)
(* a part of it from a state the API reaches.                              *)
(***************************************************************************)
EXTENDS Integers, Sequences, FiniteSets, TLC

\* ---- bounds of the model -------------------------------------------------
MaxOrders == 2      \* orders ever inserted
MaxStock  == 1      \* stock every product starts with
MaxQty    == 1      \* largest quantity on one line item
MaxItems  == 2      \* most line items in one POST /orders body
MaxHist   == 3      \* longest status history
MaxReviews  == 3    \* most reviews on one product
MaxTokens   == 2    \* most refresh tokens of one user
MaxAttempts == 3    \* highest count of failed logins

\* ---- the finite universe -------------------------------------------------
Requests    == {1, 2}
Products    == {"p1", "p2"}
Users       == {"u1", "a1"}
Statuses    == {"pending", "confirmed", "processing", "shipped", "delivered",
                "cancelled", "returned"}
GatewayOrderIds == {"order_g1"}
\* the ids razorpay.orders.create may answer with
MintedOrderIds  == {"order_g1", "order_g2"}
PaymentIds      == {"pay_1"}
RefundIds       == {"rfnd_1"}
WebhookEvents   == {"payment.captured", "payment.failed", "order.paid"}
\* the instants new Date() may return
Instants        == {1, 2}

Role(u) == IF u = "a1" THEN "admin" ELSE "user"

KeySecret     == "RAZORPAY_KEY_SECRET"
WebhookSecret == "RAZORPAY_WEBHOOK_SECRET"

\* crypto.createHmac('sha256', key).update(msg).digest('hex'): a keyed
\* digest, equal for two (key, msg) pairs only when the pairs are equal.
Hmac(key, msg) == <<key, msg>>

\* the signatures a request may carry for a message: made with either secret
SignaturesFor(msg) == {Hmac(KeySecret, msg), Hmac(WebhookSecret, msg)}

VARIABLES stock, orders, req, gatewayLog, catalog, accounts

vars == <<stock, orders, req, gatewayLog, catalog, accounts>>

\* ---- records -------------------------------------------------------------
NoSignature == <<>>

EmptyPaymentResult ==
  [id |-> "", status |-> "", razorpayOrderId |-> "", razorpayPaymentId |-> "",
   razorpaySignature |-> NoSignature]

\* a refresh token is the JWT of its payload: the user id and the second it
\* was issued in (iat); NoToken stands for a body without one
NoToken == <<>>

IdleRequest ==
  [kind |-> "none", pc |-> "idle", caller |-> "", order |-> 0, items |-> <<>>,
   idx |-> 0, status |-> "", event |-> "", gid |-> "", pid |-> "", sig |-> NoSignature,
   rid |-> "", at |-> 0, result |-> 0,
   orderItems |-> <<>>, itemsPrice |-> 0,
   product |-> "", name |-> "", price |-> 0, rating |-> 0, comment |-> "",
   average |-> 0, count |-> 0,
   token |-> NoToken, code |-> "", tokens |-> <<>>, stale |-> FALSE, issued |-> NoToken]

Free(r) == req[r].pc \in {"idle", "done"}

\* a request arrives in slot r: the first slot that is free
Arrives(r) == Free(r) /\ \A q \in Requests : Free(q) => ~(q < r)

Exists(o) == o \in 1..Len(orders)

\* the order ids a request may name: those of the orders there are, and one
\* that names no order
OrderIds == 1..(Len(orders) + 1)

\* a request slot that answered: the kind of request and the status code are
\* kept, and for POST /orders the items asked for and the order created
Answer(kind, code) == [IdleRequest EXCEPT !.kind = kind, !.pc = "done", !.result = code]

Responded(r, code) ==
  IF req[r].kind = "create"
  THEN [Answer("create", code) EXCEPT !.order = req[r].order, !.items = req[r].items]
  ELSE Answer(req[r].kind, code)

\* the requests in flight that will push an entry on order o's status history
InFlightOn(o) == {r \in Requests : req[r].pc \in {"save", "refundCall"} /\ req[r].order = o}

\* room in the bounded history of order o for one more appended entry
HistRoom(o) == Len(orders[o].statusHistory) + Cardinality(InFlightOn(o)) < MaxHist

\* ---- Order model ---------------------------------------------------------
\* order.addStatusUpdate(status, note) on the database document: the status
\* is set and one {status, note} entry is pushed on the status history.
\* a note is a text and the identifier interpolated in it ("" when none)
Note(text) == <<text, "">>

AddStatusUpdate(order, status, note) ==
  [order EXCEPT !.status = status,
                !.statusHistory = Append(@, [status |-> status, note |-> note])]

\* order.calculateTotals(): totalPrice, held in thousandths of the currency
\* unit so that a total may carry decimals; shipping and tax are left out
CalculateTotals(itemsPrice) == itemsPrice * 1000

\* new Order({user, items: orderItems, itemsPrice}) with the schema defaults,
\* order.calculateTotals(), then
\* order.addStatusUpdate('pending', 'Order placed successfully')
NewOrder(user, orderItems, itemsPrice) ==
  AddStatusUpdate(
    [user |-> user, items |-> orderItems, itemsPrice |-> itemsPrice,
     totalPrice |-> CalculateTotals(itemsPrice),
     status |-> "pending", statusHistory |-> <<>>,
     isPaid |-> FALSE, paidAt |-> 0, paymentStatus |-> "pending",
     paymentResult |-> EmptyPaymentResult],
    "pending", Note("Order placed successfully"))

\* ---- POST /orders --------------------------------------------------------
ItemLists ==
  UNION {[1..n -> [product : Products, quantity : 1..MaxQty]] : n \in 1..MaxItems}

\* fault: the check asks only for a stock that is not negative
HasStockNotNegative(item) == stock[item.product] >= 0

\* product.stock < item.quantity throws; this is its negation
HasStock(item) == stock[item.product] >= item.quantity

\* the line pushed on orderItems: name and price as the product has them now
OrderItem(item) ==
  [product |-> item.product, name |-> catalog[item.product].name,
   price |-> catalog[item.product].price, quantity |-> item.quantity]

\* fault: the quantity is left out of the sum
LinePriceOfOne(item) == catalog[item.product].price

\* itemsPrice += product.price * item.quantity
LinePrice(item) == catalog[item.product].price * item.quantity

\* one pass of the validation loop: Product.findById, the stock check, the
\* line pushed on orderItems and its price added to itemsPrice
CheckItem(r, i) ==
  LET item == req[r].items[i]
      pushed == [req[r] EXCEPT !.orderItems = Append(@, OrderItem(item)),
                               !.itemsPrice = @ + LinePrice(item)] IN
  IF ~HasStock(item)
  THEN req' = [req EXCEPT ![r] = Responded(r, 400)]
  ELSE IF i < Len(req[r].items)
       THEN req' = [req EXCEPT ![r] = [pushed EXCEPT !.idx = i + 1]]
       ELSE req' = [req EXCEPT ![r] = [pushed EXCEPT !.pc = "insert", !.idx = 0]]

\* arrival of POST /orders and the first pass of the loop
CreateOrderStart(r, caller, items) ==
  /\ Arrives(r)
  /\ LET item == items[1] IN
     IF ~HasStock(item)
     THEN req' = [req EXCEPT ![r] = [IdleRequest EXCEPT !.kind = "create", !.pc = "done",
                                      !.items = items, !.result = 400]]
     ELSE req' = [req EXCEPT ![r] = [IdleRequest EXCEPT !.kind = "create",
                                      !.pc = IF Len(items) > 1 THEN "check" ELSE "insert",
                                      !.idx = IF Len(items) > 1 THEN 2 ELSE 0,
                                      !.caller = caller, !.items = items,
                                      !.orderItems = <<OrderItem(item)>>,
                                      !.itemsPrice = LinePrice(item)]]
  /\ UNCHANGED <<stock, orders, gatewayLog, catalog, accounts>>

CreateOrderCheck(r) ==
  /\ req[r].kind = "create" /\ req[r].pc = "check"
  /\ CheckItem(r, req[r].idx)
  /\ UNCHANGED <<stock, orders, gatewayLog, catalog, accounts>>

\* await order.save(): the order document is inserted
CreateOrderInsert(r) ==
  /\ req[r].kind = "create" /\ req[r].pc = "insert"
  /\ Len(orders) < MaxOrders
  /\ orders' = Append(orders, NewOrder(req[r].caller, req[r].orderItems, req[r].itemsPrice))
  /\ req' = [req EXCEPT ![r].pc = "dec", ![r].idx = 1, ![r].order = Len(orders) + 1,
                         ![r].orderItems = <<>>, ![r].itemsPrice = 0]
  /\ UNCHANGED <<stock, gatewayLog, catalog, accounts>>

\* Product.findByIdAndUpdate(item.product, {$inc: {stock: -item.quantity}})
IncStock(p, n) == [stock EXCEPT ![p] = @ + n]

CreateOrderDecrement(r) ==
  /\ req[r].kind = "create" /\ req[r].pc = "dec"
  /\ LET i == req[r].idx
         item == req[r].items[i] IN
     /\ stock' = IncStock(item.product, -item.quantity)
     /\ req' = IF i < Len(req[r].items)
               THEN [req EXCEPT ![r].idx = i + 1]
               ELSE [req EXCEPT ![r] = Responded(r, 201)]
  /\ UNCHANGED <<orders, gatewayLog, catalog, accounts>>

\* ---- PUT /orders/:id/cancel ----------------------------------------------
\* fault: a cancelled order passes the check again
CanCancelAgain(status) == status \in {"pending", "confirmed", "cancelled"}

\* fault: an order in processing passes the check
CanCancelProcessing(status) == status \in {"pending", "confirmed", "processing"}

\* ['pending', 'confirmed'].includes(order.status)
CanCancel(status) == status \in {"pending", "confirmed"}

\* arrival, Order.findById and the three checks made on the document read
CancelOrderStart(r, caller, o) ==
  /\ Arrives(r)
  /\ LET base == [IdleRequest EXCEPT !.kind = "cancel", !.caller = caller, !.order = o] IN
     \/ /\ ~Exists(o)
        /\ req' = [req EXCEPT ![r] = Answer(base.kind, 404)]
     \/ /\ Exists(o) /\ orders[o].user # caller
        /\ req' = [req EXCEPT ![r] = Answer(base.kind, 403)]
     \/ /\ Exists(o) /\ orders[o].user = caller /\ ~CanCancel(orders[o].status)
        /\ req' = [req EXCEPT ![r] = Answer(base.kind, 400)]
     \/ /\ Exists(o) /\ orders[o].user = caller /\ CanCancel(orders[o].status)
        /\ HistRoom(o)
        /\ req' = [req EXCEPT ![r] = [base EXCEPT !.pc = "save"]]
  /\ UNCHANGED <<stock, orders, gatewayLog, catalog, accounts>>

\* await order.addStatusUpdate('cancelled', 'Cancelled by user')
CancelOrderSave(r) ==
  /\ req[r].kind = "cancel" /\ req[r].pc = "save"
  /\ orders' = [orders EXCEPT ![req[r].order] =
                  AddStatusUpdate(@, "cancelled", Note("Cancelled by user"))]
  /\ req' = [req EXCEPT ![r].pc = "restock", ![r].idx = 1]
  /\ UNCHANGED <<stock, gatewayLog, catalog, accounts>>

\* Product.findByIdAndUpdate(item.product, {$inc: {stock: item.quantity}})
CancelOrderRestock(r) ==
  /\ req[r].kind = "cancel" /\ req[r].pc = "restock"
  /\ LET items == orders[req[r].order].items
         i == req[r].idx IN
     /\ stock' = IncStock(items[i].product, items[i].quantity)
     /\ req' = IF i < Len(items)
               THEN [req EXCEPT ![r].idx = i + 1]
               ELSE [req EXCEPT ![r] = Responded(r, 200)]
  /\ UNCHANGED <<orders, gatewayLog, catalog, accounts>>

\* ---- PUT /orders/:id/status (admin) ----------------------------------------
\* authorize('admin'): roles.includes(req.user.role)
Authorized(caller, role) == Role(caller) = role

AdminNote == Note("status set by admin")

UpdateStatusStart(r, caller, o, status) ==
  /\ Arrives(r)
  /\ LET base == [IdleRequest EXCEPT !.kind = "status", !.caller = caller, !.order = o] IN
     \/ /\ ~Authorized(caller, "admin")
        /\ req' = [req EXCEPT ![r] = Answer(base.kind, 403)]
     \/ /\ Authorized(caller, "admin") /\ ~Exists(o)
        /\ req' = [req EXCEPT ![r] = Answer(base.kind, 404)]
     \/ /\ Authorized(caller, "admin") /\ Exists(o) /\ HistRoom(o)
        /\ req' = [req EXCEPT ![r] = [base EXCEPT !.pc = "save", !.status = status]]
  /\ UNCHANGED <<stock, orders, gatewayLog, catalog, accounts>>

\* await order.addStatusUpdate(status, note)
UpdateStatusSave(r) ==
  /\ req[r].kind = "status" /\ req[r].pc = "save"
  /\ orders' = [orders EXCEPT ![req[r].order] = AddStatusUpdate(@, req[r].status, AdminNote)]
  /\ req' = [req EXCEPT ![r] = Responded(r, 200)]
  /\ UNCHANGED <<stock, gatewayLog, catalog, accounts>>

\* ---- POST /payments/create-razorpay-order --------------------------------
CreateRazorpayOrderStart(r, caller, o) ==
  /\ Arrives(r)
  /\ LET base == [IdleRequest EXCEPT !.kind = "rzporder", !.caller = caller, !.order = o] IN
     \/ /\ ~Exists(o)
        /\ req' = [req EXCEPT ![r] = Answer(base.kind, 404)]
     \/ /\ Exists(o) /\ orders[o].user # caller
        /\ req' = [req EXCEPT ![r] = Answer(base.kind, 403)]
     \/ /\ Exists(o) /\ orders[o].user = caller
        /\ req' = [req EXCEPT ![r] = [base EXCEPT !.pc = "orderCall"]]
  /\ UNCHANGED <<stock, orders, gatewayLog, catalog, accounts>>

\* order.totalPrice * 100 in double arithmetic, in thousandths of the minor
\* unit: the exact product, or one off it by less than the model can hold
FloatTimes100(totalPrice) == {totalPrice * 100 + e : e \in {-1, 0, 1}}

\* fault: the product is cut to an integer
MathFloor(x) == x \div 1000

\* Math.round(x) of x thousandths: the nearest integer, a half going up
MathRound(x) == (x + 500) \div 1000

\* amount: Math.round(order.totalPrice * 100)
GatewayAmounts(order) == {MathRound(x) : x \in FloatTimes100(order.totalPrice)}

\* fault: a throw of the gateway is swallowed and the handler goes on to store
CreateRazorpayOrderCallSwallowsThrow(r) ==
  /\ req[r].kind = "rzporder" /\ req[r].pc = "orderCall"
  /\ \E amount \in GatewayAmounts(orders[req[r].order]) :
       gatewayLog' = gatewayLog \cup
         {[api |-> "orders.create", order |-> req[r].order, caller |-> req[r].caller,
           amount |-> amount]}
  /\ \/ \E gid \in MintedOrderIds : req' = [req EXCEPT ![r].pc = "store", ![r].gid = gid]
     \/ req' = [req EXCEPT ![r].pc = "store"]
  /\ UNCHANGED <<stock, orders, catalog, accounts>>

\* await razorpay.orders.create(...): the gateway answers with an id or throws
CreateRazorpayOrderCall(r) ==
  /\ req[r].kind = "rzporder" /\ req[r].pc = "orderCall"
  /\ \E amount \in GatewayAmounts(orders[req[r].order]) :
       gatewayLog' = gatewayLog \cup
         {[api |-> "orders.create", order |-> req[r].order, caller |-> req[r].caller,
           amount |-> amount]}
  /\ \/ \E gid \in MintedOrderIds : req' = [req EXCEPT ![r].pc = "store", ![r].gid = gid]
     \/ req' = [req EXCEPT ![r] = Responded(r, 500)]
  /\ UNCHANGED <<stock, orders, catalog, accounts>>

\* fault: the id stored is not the one the gateway answered with
CreateRazorpayOrderStoreFirstId(r) ==
  /\ req[r].kind = "rzporder" /\ req[r].pc = "store"
  /\ orders' = [orders EXCEPT ![req[r].order].paymentResult.razorpayOrderId = "order_g1"]
  /\ req' = [req EXCEPT ![r] = Responded(r, 200)]
  /\ UNCHANGED <<stock, gatewayLog, catalog, accounts>>

\* order.paymentResult.razorpayOrderId = razorpayOrder.id; await order.save()
CreateRazorpayOrderStore(r) ==
  /\ req[r].kind = "rzporder" /\ req[r].pc = "store"
  /\ orders' = [orders EXCEPT ![req[r].order].paymentResult.razorpayOrderId = req[r].gid]
  /\ req' = [req EXCEPT ![r] = Responded(r, 200)]
  /\ UNCHANGED <<stock, gatewayLog, catalog, accounts>>

\* ---- POST /payments/verify-payment ---------------------------------------
\* body = razorpayOrderId + '|' + razorpayPaymentId
VerifyBody(gid, pid) == <<gid, "|", pid>>

\* fault: the comparison is left out
PaymentSignatureUnchecked(gid, pid, sig) == TRUE

\* fault: the digest is keyed with the webhook secret
PaymentSignatureWrongSecret(gid, pid, sig) == sig = Hmac(WebhookSecret, VerifyBody(gid, pid))

\* expectedSignature !== razorpaySignature throws; this is its negation
PaymentSignatureOk(gid, pid, sig) == sig = Hmac(KeySecret, VerifyBody(gid, pid))

\* the fields the handler sets on the order before addStatusUpdate
MarkVerified(order, gid, pid, sig, at) ==
  [order EXCEPT !.paymentResult = [id |-> pid, status |-> "completed",
                                   razorpayOrderId |-> gid, razorpayPaymentId |-> pid,
                                   razorpaySignature |-> sig],
                !.paymentStatus = "completed",
                !.isPaid = TRUE,
                !.paidAt = at]

\* fault: the confirmed entry replaces the history instead of joining it
VerifiedOrderRewritesHistory(order, gid, pid, sig, at) ==
  [MarkVerified(order, gid, pid, sig, at) EXCEPT
     !.status = "confirmed",
     !.statusHistory = <<[status |-> "confirmed",
                          note |-> Note("Payment completed successfully")]>>]

VerifiedOrder(order, gid, pid, sig, at) ==
  AddStatusUpdate(MarkVerified(order, gid, pid, sig, at),
                  "confirmed", Note("Payment completed successfully"))

VerifyPaymentStart(r, caller, o, gid, pid, sig) ==
  /\ Arrives(r)
  /\ LET base == [IdleRequest EXCEPT !.kind = "verify", !.caller = caller, !.order = o] IN
     \/ /\ ~Exists(o)
        /\ req' = [req EXCEPT ![r] = Answer(base.kind, 404)]
     \/ /\ Exists(o) /\ orders[o].user # caller
        /\ req' = [req EXCEPT ![r] = Answer(base.kind, 403)]
     \/ /\ Exists(o) /\ orders[o].user = caller /\ ~PaymentSignatureOk(gid, pid, sig)
        /\ req' = [req EXCEPT ![r] = Answer(base.kind, 400)]
     \/ /\ Exists(o) /\ orders[o].user = caller /\ PaymentSignatureOk(gid, pid, sig)
        /\ HistRoom(o)
        /\ \E at \in Instants :
             req' = [req EXCEPT ![r] = [base EXCEPT !.pc = "save", !.gid = gid, !.pid = pid,
                                                     !.sig = sig, !.at = at]]
  /\ UNCHANGED <<stock, orders, gatewayLog, catalog, accounts>>

\* await order.addStatusUpdate('confirmed', 'Payment completed successfully')
VerifyPaymentSave(r) ==
  /\ req[r].kind = "verify" /\ req[r].pc = "save"
  /\ orders' = [orders EXCEPT ![req[r].order] =
                  VerifiedOrder(@, req[r].gid, req[r].pid, req[r].sig, req[r].at)]
  /\ req' = [req EXCEPT ![r] = Responded(r, 200)]
  /\ UNCHANGED <<stock, gatewayLog, catalog, accounts>>

\* ---- POST /payments/webhook ----------------------------------------------
\* req.body: the event and payload.payment.entity.notes.orderId
WebhookBody(event, o) == [event |-> event, orderId |-> o]

\* fault: a digest keyed with the payment key secret is taken as well
WebhookSignatureAnySecret(body, sig) == sig \in {Hmac(WebhookSecret, body), Hmac(KeySecret, body)}

\* expectedSignature !== signature throws; this is its negation
WebhookSignatureOk(body, sig) == sig = Hmac(WebhookSecret, body)

\* case 'payment.captured'
CapturedOrder(order, at) ==
  AddStatusUpdate([order EXCEPT !.paymentStatus = "completed", !.isPaid = TRUE,
                                !.paidAt = at],
                  "confirmed", Note("Payment captured via webhook"))

\* case 'payment.failed'
FailedOrder(order) ==
  AddStatusUpdate([order EXCEPT !.paymentStatus = "failed"],
                  "pending", Note("Payment failed"))

\* fault: an event the switch does not name falls into the failed case
WebhookCaseDefaultFails(event) ==
  IF event = "payment.captured" THEN "captured" ELSE "failed"

\* switch (event): the case taken
WebhookCase(event) ==
  IF event = "payment.captured" THEN "captured"
  ELSE IF event = "payment.failed" THEN "failed"
  ELSE "default"

WebhookStart(r, event, o, sig) ==
  /\ Arrives(r)
  /\ LET base == [IdleRequest EXCEPT !.kind = "webhook", !.event = event, !.order = o] IN
     \/ /\ ~WebhookSignatureOk(WebhookBody(event, o), sig)
        /\ req' = [req EXCEPT ![r] = Answer(base.kind, 400)]
     \/ /\ WebhookSignatureOk(WebhookBody(event, o), sig)
        /\ WebhookCase(event) \in {"captured", "failed"} /\ ~Exists(o)
        /\ req' = [req EXCEPT ![r] = [Answer(base.kind, 200) EXCEPT !.event = event]]
     \/ /\ WebhookSignatureOk(WebhookBody(event, o), sig)
        /\ WebhookCase(event) = "captured" /\ Exists(o)
        /\ HistRoom(o)
        /\ \E at \in Instants :
             req' = [req EXCEPT ![r] = [base EXCEPT !.pc = "save", !.sig = sig, !.at = at]]
     \/ /\ WebhookSignatureOk(WebhookBody(event, o), sig)
        /\ WebhookCase(event) = "failed" /\ Exists(o)
        /\ HistRoom(o)
        /\ req' = [req EXCEPT ![r] = [base EXCEPT !.pc = "save", !.sig = sig]]
     \/ /\ WebhookSignatureOk(WebhookBody(event, o), sig)
        /\ WebhookCase(event) = "default"
        /\ req' = [req EXCEPT ![r] = [Answer(base.kind, 200) EXCEPT !.event = event]]
  /\ UNCHANGED <<stock, orders, gatewayLog, catalog, accounts>>

\* await order.addStatusUpdate(...) of the captured and the failed case
WebhookSave(r) ==
  /\ req[r].kind = "webhook" /\ req[r].pc = "save"
  /\ orders' = [orders EXCEPT ![req[r].order] =
                  IF WebhookCase(req[r].event) = "captured"
                  THEN CapturedOrder(@, req[r].at)
                  ELSE FailedOrder(@)]
  /\ req' = [req EXCEPT ![r] = Responded(r, 200)]
  /\ UNCHANGED <<stock, gatewayLog, catalog, accounts>>

\* ---- POST /payments/refund -----------------------------------------------
\* fault: the paid check is left out
RefundableAlways(order) == TRUE

\* !order.isPaid throws; this is its negation
Refundable(order) == order.isPaid

\* order.paymentStatus = 'refunded'; addStatusUpdate('cancelled', `Refund processed: ${refund.id}`)
RefundedOrder(order, rid) ==
  AddStatusUpdate([order EXCEPT !.paymentStatus = "refunded"],
                  "cancelled", <<"Refund processed: ", rid>>)

RefundStart(r, caller, o) ==
  /\ Arrives(r)
  /\ LET base == [IdleRequest EXCEPT !.kind = "refund", !.caller = caller, !.order = o] IN
     \/ /\ ~Exists(o)
        /\ req' = [req EXCEPT ![r] = Answer(base.kind, 404)]
     \/ /\ Exists(o) /\ ~Refundable(orders[o])
        /\ req' = [req EXCEPT ![r] = Answer(base.kind, 400)]
     \/ /\ Exists(o) /\ Refundable(orders[o])
        /\ req' = [req EXCEPT ![r] = [base EXCEPT !.pc = "refundCall",
                      !.pid = orders[o].paymentResult.razorpayPaymentId]]
  /\ UNCHANGED <<stock, orders, gatewayLog, catalog, accounts>>

\* room in the bounded history of the order for the entry request r pushes
\* once the gateway has answered; without it the gateway's call can only throw
RefundRoom(r) ==
  Len(orders[req[r].order].statusHistory)
    + Cardinality(InFlightOn(req[r].order) \ {r}) < MaxHist

\* await razorpay.payments.refund(paymentId, ...): the gateway answers with a
\* refund id or throws
RefundCall(r) ==
  /\ req[r].kind = "refund" /\ req[r].pc = "refundCall"
  /\ gatewayLog' = gatewayLog \cup
       {[api |-> "payments.refund", order |-> req[r].order, caller |-> req[r].caller]}
  /\ \/ /\ RefundRoom(r)
        /\ \E rid \in RefundIds : req' = [req EXCEPT ![r].pc = "save", ![r].rid = rid]
     \/ req' = [req EXCEPT ![r] = Responded(r, 500)]
  /\ UNCHANGED <<stock, orders, catalog, accounts>>

\* order.paymentStatus = 'refunded'; await order.addStatusUpdate('cancelled', ...)
RefundSave(r) ==
  /\ req[r].kind = "refund" /\ req[r].pc = "save"
  /\ orders' = [orders EXCEPT ![req[r].order] = RefundedOrder(@, req[r].rid)]
  /\ req' = [req EXCEPT ![r] = [Responded(r, 200) EXCEPT !.rid = req[r].rid]]
  /\ UNCHANGED <<stock, gatewayLog, catalog, accounts>>

\* ---- PUT /products/:id ---------------------------------------------------
\* the name and the price a PUT /products/:id may carry
Names  == {"gadget"}
Prices == {2}

\* the bodies of PUT /products/:id that carry a name, a price or both; every
\* field of updateProductSchema is optional, "" and 0 stand for an absent one
ProductBodies == [name : Names \cup {""}, price : Prices \cup {0}] \ {[name |-> "", price |-> 0]}

\* product.seller is the caller, or the caller is an admin
MayUpdate(product, caller) == product.seller = caller \/ Role(caller) = "admin"

\* Object.assign(product, req.body) as product.save() writes it: the fields
\* of the body are set, the others stay as the database has them
AssignBody(product, name, price) ==
  [product EXCEPT !.name = IF name = "" THEN @ ELSE name,
                  !.price = IF price = 0 THEN @ ELSE price]

UpdateProductStart(r, caller, p, body) ==
  /\ Arrives(r)
  /\ LET base == [IdleRequest EXCEPT !.kind = "product", !.caller = caller, !.product = p] IN
     \/ /\ ~MayUpdate(catalog[p], caller)
        /\ req' = [req EXCEPT ![r] = Answer(base.kind, 403)]
     \/ /\ MayUpdate(catalog[p], caller)
        /\ req' = [req EXCEPT ![r] = [base EXCEPT !.pc = "save", !.name = body.name,
                                                  !.price = body.price]]
  /\ UNCHANGED <<stock, orders, gatewayLog, catalog, accounts>>

\* await product.save()
UpdateProductSave(r) ==
  /\ req[r].kind = "product" /\ req[r].pc = "save"
  /\ catalog' = [catalog EXCEPT ![req[r].product] = AssignBody(@, req[r].name, req[r].price)]
  /\ req' = [req EXCEPT ![r] = Responded(r, 200)]
  /\ UNCHANGED <<stock, orders, gatewayLog, accounts>>

\* ---- POST /products/:id/reviews -------------------------------------------
Ratings  == {1, 4}
Comments == {"fine", "poor"}

RECURSIVE FindReview(_, _, _)
\* this.reviews.find(review => review.user === userId): the place of the first
\* review of the user at or after place i, 0 when there is none
FindReview(reviews, user, i) ==
  IF i > Len(reviews) THEN 0
  ELSE IF reviews[i].user = user THEN i
  ELSE FindReview(reviews, user, i + 1)

RECURSIVE SumRatings(_)
\* this.reviews.reduce((acc, review) => acc + review.rating, 0)
SumRatings(reviews) ==
  IF reviews = <<>> THEN 0 ELSE reviews[1].rating + SumRatings(Tail(reviews))

\* (sum / n).toFixed(1), held in tenths: the quotient rounded to one decimal
ToFixed1(sum, n) == (20 * sum + n) \div (2 * n)

\* productSchema.methods.updateRating on a list of reviews
UpdateRating(reviews) ==
  IF Len(reviews) = 0
  THEN [average |-> 0, count |-> 0]
  ELSE [average |-> ToFixed1(SumRatings(reviews), Len(reviews)), count |-> Len(reviews)]

\* fault: the review is pushed without looking for one of the same user
AddReviewAlwaysPushes(reviews, user, rating, comment) ==
  Append(reviews, [user |-> user, rating |-> rating, comment |-> comment])

\* productSchema.methods.addReview on the reviews of the document in memory
AddReview(reviews, user, rating, comment) ==
  LET i == FindReview(reviews, user, 1) IN
  IF i > 0
  THEN [reviews EXCEPT ![i].rating = rating, ![i].comment = comment]
  ELSE Append(reviews, [user |-> user, rating |-> rating, comment |-> comment])

\* arrival, authenticate, Product.findById and addReview up to its save();
\* every product id names a product of the catalogue
AddReviewStart(r, caller, p, rating, comment) ==
  /\ Arrives(r)
  /\ Len(catalog[p].reviews) < MaxReviews
  /\ LET reviews == AddReview(catalog[p].reviews, caller, rating, comment)
         rated == UpdateRating(reviews) IN
     req' = [req EXCEPT ![r] = [IdleRequest EXCEPT !.kind = "review", !.pc = "save",
                                  !.caller = caller, !.product = p,
                                  !.idx = IF Len(reviews) = Len(catalog[p].reviews)
                                          THEN FindReview(reviews, caller, 1) ELSE 0,
                                  !.rating = rating, !.comment = comment,
                                  !.average = rated.average, !.count = rated.count]]
  /\ UNCHANGED <<stock, orders, gatewayLog, catalog, accounts>>

\* return this.save(): the rating and comment of the review found are set in
\* place, or the new review is pushed; rating.average and rating.count are set
\* as updateRating left them.  A push moves the document's version on, and a
\* write in place is refused (VersionError) once the version has moved.
AddReviewSave(r) ==
  /\ req[r].kind = "review" /\ req[r].pc = "save"
  /\ LET p == req[r].product
         i == req[r].idx
         rated == [average |-> req[r].average, count |-> req[r].count] IN
     IF i > 0 /\ req[r].stale
     THEN /\ req' = [req EXCEPT ![r] = Responded(r, 500)]
          /\ UNCHANGED catalog
     ELSE /\ catalog' =
               [catalog EXCEPT ![p].reviews =
                   IF i > 0
                   THEN [@ EXCEPT ![i].rating = req[r].rating, ![i].comment = req[r].comment]
                   ELSE Append(@, [user |-> req[r].caller, rating |-> req[r].rating,
                                   comment |-> req[r].comment]),
                               ![p].rating = rated]
          /\ req' = [q \in Requests |->
                       IF q = r THEN [Responded(r, 200) EXCEPT !.idx = i]
                       ELSE IF i = 0 /\ req[q].kind = "review" /\ req[q].pc = "save"
                               /\ req[q].product = p
                            THEN [req[q] EXCEPT !.stale = TRUE]
                            ELSE req[q]]
  /\ UNCHANGED <<stock, orders, gatewayLog, accounts>>

\* ---- User model ----------------------------------------------------------
\* the refresh tokens there can be: jwt.sign({userId}, secret, {expiresIn})
\* is determined by the user id and the second of issue
Tokens == {<<u, at>> : u \in Users, at \in Instants}

\* what a login may send as twoFactorCode: nothing, the code the authenticator
\* shows now, a backup code, or a code that is neither
TwoFactorCodes == {"", "totp", "b1", "zz"}

\* failed logins after which the account is locked
LockThreshold == 2

\* user.isLocked: a lock is set and has not run out
IsLocked(user) == user.lock = "locked"

\* user.incLoginAttempts(): a lock that ran out is cleared and the count starts
\* again at 1; otherwise the count goes up and reaching the threshold locks
IncLoginAttempts(user) ==
  IF user.lock = "expired"
  THEN [user EXCEPT !.loginAttempts = 1, !.lock = "none"]
  ELSE [user EXCEPT !.loginAttempts = @ + 1,
                    !.lock = IF user.loginAttempts + 1 >= LockThreshold /\ ~IsLocked(user)
                             THEN "locked" ELSE @]

\* user.resetLoginAttempts()
ResetLoginAttempts(user) == [user EXCEPT !.loginAttempts = 0, !.lock = "none"]

\* the requests in flight, other than r, that hold user u's document and will
\* save it under the version they read
HoldersOf(u, r) ==
  {q \in Requests \ {r} : req[q].caller = u /\ req[q].kind \in {"login", "refresh", "logout"}
                          /\ req[q].pc \in {"useCode", "save"}}

\* request r answers with `answer` after a save that moved the version of user
\* u's document on: the documents the other requests hold are stale
VersionMoved(r, u, answer) ==
  [q \in Requests |->
     IF q = r THEN answer
     ELSE IF q \in HoldersOf(u, r) THEN [req[q] EXCEPT !.stale = TRUE]
     ELSE req[q]]

\* refreshTokens.filter(tokenObj => tokenObj.token !== token)
WithoutToken(tokens, token) == SelectSeq(tokens, LAMBDA t : t # token)

\* refreshTokens.some(tokenObj => tokenObj.token === token)
TokenExists(tokens, token) == \E i \in 1..Len(tokens) : tokens[i] = token

\* ---- POST /auth/login ------------------------------------------------------
\* fault: the lock is not looked at
LoginGateIgnoresLock(user, passwordOk) == IF ~passwordOk THEN 401 ELSE 0

\* the checks before the second factor: the status thrown, 0 when none is
LoginGate(user, passwordOk) ==
  IF ~passwordOk THEN 401
  ELSE IF IsLocked(user) THEN 423
  ELSE 0

\* speakeasy.totp.verify({secret, token: twoFactorCode, window: 2})
TotpVerified(code) == code = "totp"

\* twoFactorBackupCodes.find(code => code.code === twoFactorCode && !code.used):
\* the place of the code found, 0 when there is none
RECURSIVE FindBackupCode(_, _, _)
FindBackupCode(codes, code, i) ==
  IF i > Len(codes) THEN 0
  ELSE IF codes[i].code = code /\ ~codes[i].used THEN i
  ELSE FindBackupCode(codes, code, i + 1)

\* fault: any code that is sent passes the 2FA block
SecondFactorAnyCode(user, code) ==
  IF ~user.twoFactorEnabled THEN "pass"
  ELSE IF code = "" THEN "required"
  ELSE "pass"

\* the 2FA block: "pass", "required" (answered 200 without tokens), "backup"
\* (a backup code is to be marked used) or "fail"
SecondFactor(user, code) ==
  IF ~user.twoFactorEnabled THEN "pass"
  ELSE IF code = "" THEN "required"
  ELSE IF TotpVerified(code) THEN "pass"
  ELSE IF FindBackupCode(user.twoFactorBackupCodes, code, 1) > 0 THEN "backup"
  ELSE "fail"

\* the tokens a user has and the logins in flight that will push one
TokenRoom(u) ==
  Len(accounts[u].refreshTokens)
    + Cardinality({q \in Requests : req[q].kind = "login" /\ req[q].caller = u
                                    /\ req[q].pc \in {"useCode", "reset", "push"}})
    < MaxTokens

\* arrival, User.findOne({email}), comparePassword and the checks made on the
\* document read; every email is the one of a user
LoginStart(r, u, passwordOk, code) ==
  /\ Arrives(r)
  /\ TokenRoom(u)
  /\ accounts[u].loginAttempts < MaxAttempts
  /\ LET user == accounts[u]
         base == [IdleRequest EXCEPT !.kind = "login", !.caller = u]
         gate == LoginGate(user, passwordOk)
         factor == SecondFactor(user, code) IN
     req' = [req EXCEPT ![r] =
       IF gate = 401 THEN [base EXCEPT !.pc = "incAttempts"]
       ELSE IF gate = 423 THEN [base EXCEPT !.pc = "done", !.result = 423]
       ELSE IF factor = "required"
            THEN [base EXCEPT !.pc = "done", !.result = 200, !.status = "requiresTwoFactor"]
       ELSE IF factor = "pass"
            THEN [base EXCEPT !.pc = "reset",
                              !.code = IF user.twoFactorEnabled THEN code ELSE ""]
       ELSE IF factor = "backup"
            THEN [base EXCEPT !.pc = "useCode", !.code = code,
                              !.idx = FindBackupCode(user.twoFactorBackupCodes, code, 1)]
       ELSE [base EXCEPT !.pc = "incAttempts"]]
  /\ UNCHANGED <<stock, orders, gatewayLog, catalog, accounts>>

\* await user.incLoginAttempts(); throw new AppError(..., 401)
LoginIncAttempts(r) ==
  /\ req[r].kind = "login" /\ req[r].pc = "incAttempts"
  /\ accounts' = [accounts EXCEPT ![req[r].caller] = IncLoginAttempts(@)]
  /\ req' = [req EXCEPT ![r] = Answer("login", 401)]
  /\ UNCHANGED <<stock, orders, gatewayLog, catalog>>

\* backupCode.used = true; await user.save(): a write in place, refused
\* (VersionError) once the document's version has moved
LoginUseCode(r) ==
  /\ req[r].kind = "login" /\ req[r].pc = "useCode"
  /\ IF req[r].stale
     THEN /\ req' = [req EXCEPT ![r] = Answer("login", 500)]
          /\ UNCHANGED accounts
     ELSE /\ accounts' = [accounts EXCEPT
                            ![req[r].caller].twoFactorBackupCodes[req[r].idx].used = TRUE]
          /\ req' = [req EXCEPT ![r].pc = "reset"]
  /\ UNCHANGED <<stock, orders, gatewayLog, catalog>>

\* await user.resetLoginAttempts(); user.lastLogin = new Date(); await user.save()
LoginReset(r) ==
  /\ req[r].kind = "login" /\ req[r].pc = "reset"
  /\ accounts' = [accounts EXCEPT ![req[r].caller] = ResetLoginAttempts(@)]
  /\ req' = [req EXCEPT ![r].pc = "push"]
  /\ UNCHANGED <<stock, orders, gatewayLog, catalog>>

\* generateTokens(user._id); user.refreshTokens.push({token}); await user.save():
\* the token is pushed on the array the database has
LoginPush(r) ==
  /\ req[r].kind = "login" /\ req[r].pc = "push"
  /\ \E at \in Instants :
       LET u == req[r].caller
           token == <<u, at>> IN
       /\ accounts' = [accounts EXCEPT ![u].refreshTokens = Append(@, token)]
       /\ req' = VersionMoved(r, u, [Answer("login", 200) EXCEPT !.issued = token])
  /\ UNCHANGED <<stock, orders, gatewayLog, catalog>>

\* ---- POST /auth/refresh ----------------------------------------------------
\* fault: the presented token is not looked for in the user's tokens
RefreshAllowedAlways(tokens, token) == TRUE

\* verifyRefreshToken: the token must be one of user.refreshTokens
RefreshAllowed(tokens, token) == TokenExists(tokens, token)

\* verifyRefreshToken on the document read, then the handler up to its save():
\* the presented token is filtered out and the new one pushed
RefreshStart(r, token) ==
  /\ Arrives(r)
  /\ LET base == [IdleRequest EXCEPT !.kind = "refresh", !.token = token] IN
     \/ /\ token = NoToken
        /\ req' = [req EXCEPT ![r] = Answer(base.kind, 401)]
     \/ /\ token # NoToken /\ ~RefreshAllowed(accounts[token[1]].refreshTokens, token)
        /\ req' = [req EXCEPT ![r] = Answer(base.kind, 401)]
     \/ /\ token # NoToken /\ RefreshAllowed(accounts[token[1]].refreshTokens, token)
        /\ \E at \in Instants :
             LET u == token[1]
                 issued == <<u, at>> IN
             req' = [req EXCEPT ![r] =
                       [base EXCEPT !.pc = "save", !.caller = u, !.issued = issued,
                                    !.tokens = Append(WithoutToken(accounts[u].refreshTokens, token),
                                                      issued)]]
  /\ UNCHANGED <<stock, orders, gatewayLog, catalog, accounts>>

\* await user.save(): the array is set as a whole, under the version read;
\* the request then answers 200 with `answer`
SaveTokens(r, answer) ==
  IF req[r].stale
  THEN /\ req' = [req EXCEPT ![r] = Answer(req[r].kind, 500)]
       /\ UNCHANGED accounts
  ELSE /\ accounts' = [accounts EXCEPT ![req[r].caller].refreshTokens = req[r].tokens]
       /\ req' = VersionMoved(r, req[r].caller, answer)

RefreshSave(r) ==
  /\ req[r].kind = "refresh" /\ req[r].pc = "save"
  /\ SaveTokens(r, [Answer("refresh", 200) EXCEPT !.issued = req[r].issued])
  /\ UNCHANGED <<stock, orders, gatewayLog, catalog>>

\* ---- POST /auth/logout -----------------------------------------------------
\* fault: a logout that names a token empties the list all the same
TokensAfterLogoutAll(tokens, token) == <<>>

\* the list the handler assigns: without the token named, or empty
TokensAfterLogout(tokens, token) ==
  IF token # NoToken THEN WithoutToken(tokens, token) ELSE <<>>

\* authenticate on the document read, then the handler up to its save()
LogoutStart(r, caller, token) ==
  /\ Arrives(r)
  /\ LET base == [IdleRequest EXCEPT !.kind = "logout", !.caller = caller, !.token = token] IN
     req' = [req EXCEPT ![r] =
               IF IsLocked(accounts[caller])
               THEN Answer(base.kind, 423)
               ELSE [base EXCEPT !.pc = "save",
                                 !.tokens = TokensAfterLogout(accounts[caller].refreshTokens,
                                                              token)]]
  /\ UNCHANGED <<stock, orders, gatewayLog, catalog, accounts>>

LogoutSave(r) ==
  /\ req[r].kind = "logout" /\ req[r].pc = "save"
  /\ SaveTokens(r, [Answer("logout", 200) EXCEPT !.caller = req[r].caller,
                                                 !.token = req[r].token])
  /\ UNCHANGED <<stock, orders, gatewayLog, catalog>>

\* the lock of a locked account runs out as time passes
LockExpires(u) ==
  /\ accounts[u].lock = "locked"
  /\ accounts' = [accounts EXCEPT ![u].lock = "expired"]
  /\ UNCHANGED <<stock, orders, req, gatewayLog, catalog>>

\* ---- specifications ------------------------------------------------------
\* the catalogue the run starts from: every product in stock
InitialStock == [p \in Products |-> MaxStock]

\* the accounts: u1 has 2FA on and one backup code, a1 has 2FA off; nobody is
\* logged in
InitialAccounts ==
  [u \in Users |->
     [refreshTokens |-> <<>>, twoFactorEnabled |-> (u = "u1"),
      twoFactorBackupCodes |-> IF u = "u1" THEN <<[code |-> "b1", used |-> FALSE]>> ELSE <<>>,
      loginAttempts |-> 0, lock |-> "none"]]

\* ... and listed by the admin under its first name and price, without reviews
InitialCatalog ==
  [p \in Products |-> [name |-> "widget", price |-> 1, seller |-> "a1",
                        reviews |-> <<>>, rating |-> [average |-> 0, count |-> 0]]]

\* the server starts on an empty orders collection
Init ==
  /\ stock = InitialStock
  /\ orders = <<>>
  /\ req = [r \in Requests |-> IdleRequest]
  /\ gatewayLog = {}
  /\ catalog = InitialCatalog
  /\ accounts = InitialAccounts

\* the database once u1's POST /orders for one p1 and one p2 was answered
PlacedItems ==
  <<[product |-> "p1", name |-> InitialCatalog["p1"].name,
     price |-> InitialCatalog["p1"].price, quantity |-> 1],
    [product |-> "p2", name |-> InitialCatalog["p2"].name,
     price |-> InitialCatalog["p2"].price, quantity |-> 1]>>

InitPlaced ==
  /\ stock = [p \in Products |-> InitialStock[p] - 1]
  /\ orders = <<NewOrder("u1", PlacedItems,
                          InitialCatalog["p1"].price + InitialCatalog["p2"].price)>>
  /\ req = [r \in Requests |-> IdleRequest]
  /\ gatewayLog = {}
  /\ catalog = InitialCatalog
  /\ accounts = InitialAccounts

Quiet == \A q \in Requests : Free(q)

CreateSteps ==
  \/ \E r \in Requests : CreateOrderCheck(r)
  \/ \E r \in Requests : CreateOrderInsert(r)
  \/ \E r \in Requests : CreateOrderDecrement(r)

CancelSteps ==
  \/ \E r \in Requests : CancelOrderSave(r)
  \/ \E r \in Requests : CancelOrderRestock(r)

PaymentSteps ==
  \/ \E r \in Requests : CreateRazorpayOrderCall(r)
  \/ \E r \in Requests : CreateRazorpayOrderStore(r)
  \/ \E r \in Requests : VerifyPaymentSave(r)
  \/ \E r \in Requests : WebhookSave(r)
  \/ \E r \in Requests : RefundCall(r)
  \/ \E r \in Requests : RefundSave(r)

\* a refund that arrives while the bounded history of its order has room for
\* the entry it pushes
RefundArrives(r, caller, o) ==
  /\ (Exists(o) /\ Refundable(orders[o])) => HistRoom(o)
  /\ RefundStart(r, caller, o)

PaymentArrivals ==
  \/ \E r \in Requests, u \in Users, o \in OrderIds : CreateRazorpayOrderStart(r, u, o)
  \/ \E r \in Requests, u \in Users, o \in OrderIds, gid \in GatewayOrderIds,
        pid \in PaymentIds :
       \E sig \in SignaturesFor(VerifyBody(gid, pid)) :
          VerifyPaymentStart(r, u, o, gid, pid, sig)
  \/ \E r \in Requests, ev \in WebhookEvents, o \in OrderIds :
       \E sig \in SignaturesFor(WebhookBody(ev, o)) : WebhookStart(r, ev, o, sig)
  \/ \E r \in Requests, u \in Users, o \in OrderIds : RefundArrives(r, u, o)

\* the whole API
Next ==
  \/ \E r \in Requests, u \in Users, items \in ItemLists : CreateOrderStart(r, u, items)
  \/ CreateSteps
  \/ \E r \in Requests, u \in Users, o \in OrderIds : CancelOrderStart(r, u, o)
  \/ CancelSteps
  \/ \E r \in Requests, u \in Users, o \in OrderIds, st \in Statuses :
        UpdateStatusStart(r, u, o, st)
  \/ \E r \in Requests : UpdateStatusSave(r)
  \/ PaymentArrivals
  \/ PaymentSteps
  \/ \E r \in Requests, u \in Users, p \in Products, body \in ProductBodies :
        UpdateProductStart(r, u, p, body)
  \/ \E r \in Requests : UpdateProductSave(r)
  \/ \E r \in Requests, u \in Users, p \in Products, rating \in Ratings,
        comment \in Comments : AddReviewStart(r, u, p, rating, comment)
  \/ \E r \in Requests : AddReviewSave(r)
  \/ \E r \in Requests, u \in Users, passwordOk \in BOOLEAN, code \in TwoFactorCodes :
        LoginStart(r, u, passwordOk, code)
  \/ \E r \in Requests : LoginIncAttempts(r)
  \/ \E r \in Requests : LoginUseCode(r)
  \/ \E r \in Requests : LoginReset(r)
  \/ \E r \in Requests : LoginPush(r)
  \/ \E r \in Requests, token \in Tokens \cup {NoToken} : RefreshStart(r, token)
  \/ \E r \in Requests : RefreshSave(r)
  \/ \E r \in Requests, u \in Users, token \in Tokens \cup {NoToken} : LogoutStart(r, u, token)
  \/ \E r \in Requests : LogoutSave(r)
  \/ \E u \in Users : LockExpires(u)

Spec == Init /\ [][Next]_vars

\* concurrent POST /orders requests on the empty database
NextCreate ==
  \/ \E r \in Requests, u \in Users, items \in ItemLists : CreateOrderStart(r, u, items)
  \/ CreateSteps

SpecCreate == Init /\ [][NextCreate]_vars

\* order creations and cancellations, one request at a time
NextSeq ==
  \/ \E r \in Requests, u \in Users, items \in ItemLists :
        Quiet /\ CreateOrderStart(r, u, items)
  \/ CreateSteps
  \/ \E r \in Requests, u \in Users, o \in OrderIds : Quiet /\ CancelOrderStart(r, u, o)
  \/ CancelSteps

SpecSeq == Init /\ [][NextSeq]_vars

\* concurrent cancellations and status updates of a placed order
NextOrders ==
  \/ \E r \in Requests, u \in Users, o \in OrderIds : CancelOrderStart(r, u, o)
  \/ CancelSteps
  \/ \E r \in Requests, u \in Users, o \in OrderIds, st \in Statuses :
        UpdateStatusStart(r, u, o, st)
  \/ \E r \in Requests : UpdateStatusSave(r)

SpecOrders == InitPlaced /\ [][NextOrders]_vars

\* the totals an order may carry, in thousandths of the currency unit:
\* 250.50, 0.01, 1.99, 2.994 and 1.005
TotalPrices == {250500, 10, 1990, 2994, 1005}

\* a placed order whose total is one of TotalPrices
InitAmount ==
  /\ stock = [p \in Products |-> InitialStock[p] - 1]
  /\ \E total \in TotalPrices :
       orders = <<[NewOrder("u1", PlacedItems,
                            InitialCatalog["p1"].price + InitialCatalog["p2"].price)
                     EXCEPT !.totalPrice = total]>>
  /\ req = [r \in Requests |-> IdleRequest]
  /\ gatewayLog = {}
  /\ catalog = InitialCatalog
  /\ accounts = InitialAccounts

\* gateway orders asked for on that order
NextAmount ==
  \/ \E r \in Requests, u \in Users, o \in OrderIds : CreateRazorpayOrderStart(r, u, o)
  \/ \E r \in Requests : CreateRazorpayOrderCall(r)
  \/ \E r \in Requests : CreateRazorpayOrderStore(r)

SpecAmount == InitAmount /\ [][NextAmount]_vars

\* a placed order that is paid through verify-payment and refunded, with
\* refunds arriving whatever the length of its history
NextRefund ==
  \/ \E r \in Requests, u \in Users, o \in OrderIds, gid \in GatewayOrderIds,
        pid \in PaymentIds :
       \E sig \in SignaturesFor(VerifyBody(gid, pid)) :
          VerifyPaymentStart(r, u, o, gid, pid, sig)
  \/ \E r \in Requests : VerifyPaymentSave(r)
  \/ \E r \in Requests, u \in Users, o \in OrderIds : RefundStart(r, u, o)
  \/ \E r \in Requests : RefundCall(r)
  \/ \E r \in Requests : RefundSave(r)

SpecRefund == InitPlaced /\ [][NextRefund]_vars

\* concurrent payment requests on a placed order
NextPay ==
  \/ PaymentArrivals
  \/ PaymentSteps

SpecPay == InitPlaced /\ [][NextPay]_vars

\* every request there is on a placed order; the admin moves it back to pending
\* or on to shipped
ReopenOrShip == {"pending", "shipped"}

NextPlaced ==
  \/ \E r \in Requests, u \in Users, o \in OrderIds : CancelOrderStart(r, u, o)
  \/ CancelSteps
  \/ \E r \in Requests, u \in Users, o \in OrderIds, st \in ReopenOrShip :
        UpdateStatusStart(r, u, o, st)
  \/ \E r \in Requests : UpdateStatusSave(r)
  \/ NextPay

SpecPlaced == InitPlaced /\ [][NextPlaced]_vars

\* the life of an order from its creation on: the first order, of one line, is
\* placed while no other request is in flight, and every request that changes
\* an order's status then runs concurrently on it
NextLife ==
  \/ \E r \in Requests, u \in Users, items \in ItemLists :
        orders = <<>> /\ Quiet /\ Len(items) = 1 /\ CreateOrderStart(r, u, items)
  \/ \E r \in Requests : CreateOrderInsert(r)
  \/ \E r \in Requests : CreateOrderDecrement(r)
  \/ \E r \in Requests, u \in Users, o \in OrderIds : CancelOrderStart(r, u, o)
  \/ CancelSteps
  \/ \E r \in Requests, u \in Users, o \in OrderIds, st \in ReopenOrShip :
        UpdateStatusStart(r, u, o, st)
  \/ \E r \in Requests : UpdateStatusSave(r)
  \/ \E r \in Requests, u \in Users, o \in OrderIds, gid \in GatewayOrderIds,
        pid \in PaymentIds :
       \E sig \in SignaturesFor(VerifyBody(gid, pid)) :
          VerifyPaymentStart(r, u, o, gid, pid, sig)
  \/ \E r \in Requests : VerifyPaymentSave(r)
  \/ \E r \in Requests, ev \in WebhookEvents, o \in OrderIds :
       \E sig \in SignaturesFor(WebhookBody(ev, o)) : WebhookStart(r, ev, o, sig)
  \/ \E r \in Requests : WebhookSave(r)
  \/ \E r \in Requests, u \in Users, o \in OrderIds : RefundArrives(r, u, o)
  \/ \E r \in Requests : RefundCall(r)
  \/ \E r \in Requests : RefundSave(r)

SpecLife == Init /\ [][NextLife]_vars

\* orders placed while products are renamed and repriced: the catalogue holds
\* one unit more of every product, and a line may ask for one unit more
BulkItemLists ==
  UNION {[1..n -> [product : Products, quantity : 1..(MaxQty + 1)]] : n \in 1..MaxItems}

InitRestocked ==
  /\ stock = [p \in Products |-> InitialStock[p] + 1]
  /\ orders = <<>>
  /\ req = [r \in Requests |-> IdleRequest]
  /\ gatewayLog = {}
  /\ catalog = InitialCatalog
  /\ accounts = InitialAccounts

\* a request of the kind is in flight
InFlight(kind) == \E q \in Requests : req[q].kind = kind /\ ~Free(q)

\* the first order is placed while products are updated: one POST /orders and
\* one PUT /products/:id at a time, the two concurrently
NextPrice ==
  \/ \E r \in Requests, u \in Users, items \in BulkItemLists :
        orders = <<>> /\ ~InFlight("create") /\ CreateOrderStart(r, u, items)
  \/ CreateSteps
  \/ \E r \in Requests, u \in Users, p \in Products, body \in ProductBodies :
        ~InFlight("product") /\ UpdateProductStart(r, u, p, body)
  \/ \E r \in Requests : UpdateProductSave(r)

SpecPrice == InitRestocked /\ [][NextPrice]_vars

\* sessions: concurrent logins that pass (the password is right, and the code
\* sent is none or the one the authenticator shows), refreshes and logouts
NextSessions ==
  \/ \E r \in Requests, u \in Users, code \in {"", "totp"} : LoginStart(r, u, TRUE, code)
  \/ \E r \in Requests : LoginReset(r)
  \/ \E r \in Requests : LoginPush(r)
  \/ \E r \in Requests, token \in Tokens \cup {NoToken} : RefreshStart(r, token)
  \/ \E r \in Requests : RefreshSave(r)
  \/ \E r \in Requests, u \in Users, token \in Tokens \cup {NoToken} : LogoutStart(r, u, token)
  \/ \E r \in Requests : LogoutSave(r)

SpecSessions == Init /\ [][NextSessions]_vars

\* concurrent logins of every kind, and locks that run out
NextLogin ==
  \/ \E r \in Requests, u \in Users, passwordOk \in BOOLEAN, code \in TwoFactorCodes :
        LoginStart(r, u, passwordOk, code)
  \/ \E r \in Requests : LoginIncAttempts(r)
  \/ \E r \in Requests : LoginUseCode(r)
  \/ \E r \in Requests : LoginReset(r)
  \/ \E r \in Requests : LoginPush(r)
  \/ \E u \in Users : LockExpires(u)

SpecLogin == Init /\ [][NextLogin]_vars

\* reviews, one POST /products/:id/reviews after the other
NextReviews ==
  \/ \E r \in Requests, u \in Users, p \in Products, rating \in Ratings,
        comment \in Comments :
        ~InFlight("review") /\ AddReviewStart(r, u, p, rating, comment)
  \/ \E r \in Requests : AddReviewSave(r)

SpecReviews == Init /\ [][NextReviews]_vars

\* ---- order workflow: claims ------------------------------------------------
OneUnitOf(p) == <<[product |-> p, quantity |-> 1]>>

\* C1: two POST /orders requests, each for one unit of the same product whose
\* stock is 1, end with exactly one of them answered 201 and the other 400
\* (here: both are answered, the product started with a stock of 1, and the
\* orders in the database are the ones these two requests inserted).
C1_ExactlyOneSucceeds ==
  \A p \in Products :
    ( /\ InitialStock[p] = 1
      /\ \A r \in Requests : /\ req[r].kind = "create" /\ req[r].pc = "done"
                             /\ req[r].items = OneUnitOf(p)
                             /\ req[r].result \in {201, 400}
      /\ \A o \in 1..Len(orders) : \E r \in Requests : req[r].order = o )
    => Cardinality({r \in Requests : req[r].result = 201}) = 1

\* the stock check of POST /orders, as the claims state it
Insufficient(item) == stock[item.product] < item.quantity

\* C2: a POST /orders request that names an item whose product has less stock
\* than the quantity asked is answered 400, persists no order and changes no
\* product's stock; the passes of the loop before the failing one wrote nothing.
C2_InsufficientStockChangesNothing ==
  [][\A r \in Requests :
       (req'[r] # req[r] /\ req'[r].kind = "create") =>
       /\ \A u \in Users, items \in ItemLists :
            CreateOrderStart(r, u, items) =>
              /\ orders' = orders /\ stock' = stock
              /\ Insufficient(items[1]) =>
                   /\ req'[r].pc = "done" /\ req'[r].result = 400
                   /\ req'[r].order = 0
       /\ CreateOrderCheck(r) =>
            /\ orders' = orders /\ stock' = stock
            /\ Insufficient(req[r].items[req[r].idx]) =>
                 /\ req'[r].pc = "done" /\ req'[r].result = 400
                 /\ req'[r].order = 0
       /\ (req'[r] # req[r] /\ req'[r].kind = "create" /\ req'[r].result = 400) =>
            orders' = orders /\ stock' = stock]_vars

\* a two-line request was refused on its second line after its first had passed
C2_Witness ==
  \E r \in Requests :
    /\ req[r].kind = "create" /\ req[r].pc = "done" /\ req[r].result = 400
    /\ Len(req[r].items) = 2
    /\ ~Insufficient(req[r].items[1]) /\ Insufficient(req[r].items[2])
    /\ Len(orders) = 1

RECURSIVE QuantityOf(_, _)
\* the total quantity of product p over a list of line items
QuantityOf(p, items) ==
  IF items = <<>> THEN 0
  ELSE (IF items[1].product = p THEN items[1].quantity ELSE 0) + QuantityOf(p, Tail(items))

RECURSIVE Reserved(_, _)
\* the total quantity of product p over the orders 1..n that are not cancelled
Reserved(p, n) ==
  IF n = 0 THEN 0
  ELSE (IF orders[n].status # "cancelled" THEN QuantityOf(p, orders[n].items) ELSE 0)
       + Reserved(p, n - 1)

\* C3: with order creations and owner cancellations run one at a time, between
\* requests every product's stock is its initial stock minus the quantity of
\* that product on the orders that are not cancelled.
C3_StockMatchesOpenOrders ==
  Quiet => \A p \in Products : stock[p] = InitialStock[p] - Reserved(p, Len(orders))

\* one order was cancelled and restocked, another is open
C3_Witness ==
  /\ Quiet
  /\ Len(orders) = 2
  /\ orders[1].status = "cancelled" /\ orders[2].status = "pending"
  /\ \E p \in Products : QuantityOf(p, orders[1].items) > 0 /\ stock[p] < InitialStock[p]

\* C4: the owner's cancel request on an order whose status is neither pending
\* nor confirmed is answered 400 and changes neither the order (status, status
\* history) nor any product's stock.
C4_LateCancelChangesNothing ==
  [][\A r \in Requests :
       (req'[r] # req[r] /\ req'[r].kind = "cancel") =>
       \A u \in Users, o \in OrderIds :
         ( /\ Exists(o) /\ orders[o].user = u
           /\ orders[o].status \in Statuses \ {"pending", "confirmed"}
           /\ CancelOrderStart(r, u, o) )
         => /\ req'[r].pc = "done" /\ req'[r].result = 400
            /\ orders' = orders /\ stock' = stock]_vars

\* a cancel request was refused on an order that is shipped
C4_Witness ==
  \E r \in Requests :
    /\ req[r].kind = "cancel" /\ req[r].pc = "done" /\ req[r].result = 400
    /\ orders[1].status = "shipped"

\* ---- payment workflow: claims ----------------------------------------------
\* the request in slot r carries a signature that verifies
PassedSignatureCheck(r) ==
  \/ /\ req[r].kind = "verify"
     /\ req[r].sig = Hmac(KeySecret, <<req[r].gid, "|", req[r].pid>>)
  \/ /\ req[r].kind = "webhook" /\ req[r].event = "payment.captured"
     /\ req[r].sig = Hmac(WebhookSecret, [event |-> req[r].event, orderId |-> req[r].order])

\* C5: isPaid becomes true only in the write of a verify-payment or
\* payment.captured request on that order whose signature verified; no other
\* step of any request sets it.
C5_PaidOnlyAfterSignatureCheck ==
  [][\A o \in 1..Len(orders) :
       (~orders[o].isPaid /\ orders'[o].isPaid) =>
          \E r \in Requests :
            /\ req[r].order = o /\ req[r].pc = "save"
            /\ PassedSignatureCheck(r)
            /\ req'[r].pc = "done" /\ req'[r].result = 200]_vars

\* an order was paid, and was since cancelled
C5_Witness ==
  \E o \in 1..Len(orders) : orders[o].isPaid /\ orders[o].status = "cancelled"

\* C6: verify-payment by the owner with a signature that is not the HMAC of
\* gatewayOrderId|paymentId under the key secret is answered 400 and leaves
\* the order as it was.
C6_BadSignatureChangesNothing ==
  [][\A r \in Requests :
       (req'[r] # req[r] /\ req'[r].kind = "verify") =>
       \A u \in Users, o \in OrderIds, gid \in GatewayOrderIds, pid \in PaymentIds :
         \A sig \in SignaturesFor(<<gid, "|", pid>>) :
           ( /\ Exists(o) /\ orders[o].user = u
             /\ sig # Hmac(KeySecret, <<gid, "|", pid>>)
             /\ VerifyPaymentStart(r, u, o, gid, pid, sig) )
           => /\ req'[r].pc = "done" /\ req'[r].result = 400
              /\ orders' = orders]_vars

\* a verify-payment request was refused on an order that is not paid
C6_Witness ==
  \E r \in Requests :
    /\ req[r].kind = "verify" /\ req[r].pc = "done" /\ req[r].result = 400
    /\ ~orders[1].isPaid

\* C7: the write of a payment.captured webhook on an order that an earlier
\* delivery of it already marked paid and confirmed changes nothing.
C7_SecondCaptureIsNoOp ==
  [][\A r \in Requests :
       ( /\ WebhookSave(r) /\ req[r].event = "payment.captured"
         /\ orders[req[r].order].isPaid
         /\ orders[req[r].order].paymentStatus = "completed"
         /\ orders[req[r].order].status = "confirmed"
         /\ orders[req[r].order].statusHistory[Len(orders[req[r].order].statusHistory)].note
              = Note("Payment captured via webhook") )
       => orders' = orders]_vars

\* what C8 compares of an order
Terminal(order) ==
  <<order.status, order.statusHistory, order.isPaid, order.paymentStatus,
    order.paymentResult>>

VerifyNote  == Note("Payment completed successfully")
CaptureNote == Note("Payment captured via webhook")

\* C8: once a verify-payment and a payment.captured webhook have both been
\* applied to a placed order, and nothing else, the order is the one reached
\* by applying the verify first and the webhook second, whichever came first.
C8_TerminalStateSame ==
  \A o \in 1..Len(orders) :
    LET h == orders[o].statusHistory
        pr == orders[o].paymentResult IN
    ( /\ Len(h) = 3
      /\ {h[2].note, h[3].note} = {VerifyNote, CaptureNote} )
    => Terminal(orders[o]) =
         Terminal(CapturedOrder(
                    VerifiedOrder(NewOrder(orders[o].user, orders[o].items,
                                           orders[o].itemsPrice),
                                  pr.razorpayOrderId, pr.razorpayPaymentId,
                                  pr.razorpaySignature, 1),
                    2))

\* C9: the gateway refund API is called only for an admin caller.
C9_RefundOnlyByAdmin ==
  \A call \in gatewayLog : call.api = "payments.refund" => Role(call.caller) = "admin"

\* C10: a refund request on an order that is not paid is answered 400 with no
\* gateway call and no change to the order; the write of a refund request
\* sets paymentStatus to refunded and appends exactly one cancelled entry whose
\* note carries the refund id; the gateway is called only by a refund request
\* that found the order paid.
C10_RefundNeedsPaidOrder ==
  [][\A r \in Requests :
       (req'[r] # req[r] /\ req'[r].kind = "refund") =>
       /\ \A u \in Users, o \in OrderIds :
            (Exists(o) /\ ~orders[o].isPaid /\ RefundStart(r, u, o)) =>
               /\ req'[r].pc = "done" /\ req'[r].result = 400
               /\ orders' = orders /\ gatewayLog' = gatewayLog
       /\ RefundSave(r) =>
            LET o == req[r].order IN
            /\ orders'[o].paymentStatus = "refunded"
            /\ orders'[o].status = "cancelled"
            /\ orders'[o].statusHistory =
                 Append(orders[o].statusHistory,
                        [status |-> "cancelled",
                         note |-> <<"Refund processed: ", req[r].rid>>])
            /\ req[r].rid \in RefundIds
            /\ \A q \in 1..Len(orders) : q # o => orders'[q] = orders[q]
       /\ RefundCall(r) => orders' = orders]_vars

\* an order was refunded
C10_Witness ==
  \E o \in 1..Len(orders) :
    LET h == orders[o].statusHistory IN
    /\ orders[o].isPaid /\ orders[o].paymentStatus = "refunded"
    /\ h[Len(h)].status = "cancelled" /\ h[Len(h)].note[2] \in RefundIds

\* ---- status history: claims -------------------------------------------------
\* C11: every step of every request (creation, owner cancellation, admin
\* status update, verify-payment, webhook, refund, create-razorpay-order)
\* leaves the entries an order's status history had in place and in order,
\* adding entries only at its end, and leaves every order with a status that
\* is the status of its last history entry.
C11_HistoryAppendOnly ==
  [][\A o \in 1..Len(orders') :
       LET h == orders'[o].statusHistory IN
       /\ Len(h) > 0
       /\ orders'[o].status = h[Len(h)].status
       /\ o <= Len(orders) =>
            /\ Len(h) >= Len(orders[o].statusHistory)
            /\ SubSeq(h, 1, Len(orders[o].statusHistory)) = orders[o].statusHistory]_vars

\* an order placed by a request went through payment and was then cancelled
\* by its owner
C11_Witness ==
  /\ \E r \in Requests : req[r].kind = "cancel" /\ req[r].pc = "done" /\ req[r].result = 200
  /\ \E o \in 1..Len(orders) :
       LET h == orders[o].statusHistory IN
       /\ Len(h) = 3
       /\ h[1].status = "pending" /\ h[2].status = "confirmed" /\ h[3].status = "cancelled"
       /\ orders[o].status = "cancelled"

\* ---- catalogue: claims --------------------------------------------------------
RECURSIVE SumOfLines(_)
\* the sum over the lines of an order of price times quantity
SumOfLines(items) ==
  IF items = <<>> THEN 0
  ELSE items[1].price * items[1].quantity + SumOfLines(Tail(items))

\* C12: every order in the database has an itemsPrice that is the sum over
\* its lines of snapshotted price times quantity, and no step of any request,
\* a product update's save included, changes the lines (product, name, price,
\* quantity) or the itemsPrice of an order there is.
C12_ItemsPriceIsSnapshotSum ==
  [][/\ \A o \in 1..Len(orders') : orders'[o].itemsPrice = SumOfLines(orders'[o].items)
     /\ \A o \in 1..Len(orders) :
          /\ orders'[o].items = orders[o].items
          /\ orders'[o].itemsPrice = orders[o].itemsPrice]_vars

\* an order holds a line of two units whose product was since renamed and
\* repriced
C12_Witness ==
  \E o \in 1..Len(orders) : \E i \in 1..Len(orders[o].items) :
    LET line == orders[o].items[i] IN
    /\ line.quantity = 2
    /\ catalog[line.product].price # line.price
    /\ catalog[line.product].name # line.name

\* ---- webhook: claims ----------------------------------------------------------
\* C13: a webhook whose signature is the HMAC of its body under the webhook
\* secret is answered 200, at once when the order it names does not exist or
\* its event is not one the switch names, and after the write otherwise; a
\* webhook with any other signature is answered at once with a status that is
\* not 200.
C13_WebhookAnswers200IffSigned ==
  [][\A r \in Requests :
       (req'[r] # req[r] /\ req'[r].kind = "webhook") =>
       /\ \A ev \in WebhookEvents, o \in OrderIds :
            \A sig \in SignaturesFor([event |-> ev, orderId |-> o]) :
              WebhookStart(r, ev, o, sig) =>
                IF sig = Hmac(WebhookSecret, [event |-> ev, orderId |-> o])
                THEN /\ req'[r].pc \in {"done", "save"}
                     /\ req'[r].pc = "done" => req'[r].result = 200
                     /\ (~Exists(o) \/ ev \notin {"payment.captured", "payment.failed"})
                          => req'[r].pc = "done"
                ELSE req'[r].pc = "done" /\ req'[r].result # 200
       /\ WebhookSave(r) => req'[r].pc = "done" /\ req'[r].result = 200]_vars

\* a signed payment.failed webhook that names no order was answered 200, and a
\* webhook was refused
C13_Witness ==
  /\ \E r \in Requests : /\ req[r].kind = "webhook" /\ req[r].pc = "done"
                         /\ req[r].result = 200 /\ req[r].event = "payment.failed"
  /\ \E r \in Requests : req[r].kind = "webhook" /\ req[r].pc = "done" /\ req[r].result = 400

\* C14: a signed webhook whose event is neither payment.captured nor
\* payment.failed is answered 200 at once and writes nothing: no order changes
\* in status, status history, isPaid, paymentStatus or paymentResult, and the
\* request goes on to no write.
C14_UnknownEventChangesNothing ==
  [][\A r \in Requests :
       (req'[r] # req[r] /\ req'[r].kind = "webhook") =>
       /\ \A ev \in WebhookEvents \ {"payment.captured", "payment.failed"}, o \in OrderIds :
            WebhookStart(r, ev, o, Hmac(WebhookSecret, [event |-> ev, orderId |-> o])) =>
              /\ req'[r].pc = "done" /\ req'[r].result = 200
              /\ orders' = orders
       /\ (WebhookSave(r) /\ req[r].event \notin {"payment.captured", "payment.failed"})
            => orders' = orders]_vars

\* a signed order.paid webhook was answered 200 while the order is as placed
C14_Witness ==
  /\ \E r \in Requests : /\ req[r].kind = "webhook" /\ req[r].pc = "done"
                         /\ req[r].result = 200 /\ req[r].event = "order.paid"
  /\ Len(orders[1].statusHistory) = 1 /\ orders[1].paymentStatus = "pending"

\* ---- gateway order: claims ----------------------------------------------------
\* C20: create-razorpay-order by a caller who is not the order's owner is
\* answered 403 at once, with no call of the gateway and no change to any
\* order; the gateway's orders.create is only ever called for the order's
\* owner; and the write that follows the gateway's answer leaves the order
\* with the id the gateway answered with as its stored gateway order id.
C20_GatewayOrderForOwnerOnly ==
  [][/\ \A r \in Requests :
          (req'[r] # req[r] /\ req'[r].kind = "rzporder") =>
          /\ \A u \in Users, o \in OrderIds :
               (Exists(o) /\ orders[o].user # u /\ CreateRazorpayOrderStart(r, u, o)) =>
                  /\ req'[r].pc = "done" /\ req'[r].result = 403
                  /\ orders' = orders /\ gatewayLog' = gatewayLog
          /\ CreateRazorpayOrderStore(r) =>
               /\ req[r].gid \in MintedOrderIds
               /\ orders'[req[r].order].paymentResult.razorpayOrderId = req[r].gid
               /\ req'[r].pc = "done" /\ req'[r].result = 200
     /\ \A call \in gatewayLog' :
          call.api = "orders.create" => orders[call.order].user = call.caller]_vars

\* the owner's request stored the second id the gateway can answer with, and
\* the other user's request was refused
C20_Witness ==
  /\ orders[1].paymentResult.razorpayOrderId = "order_g2"
  /\ \E r \in Requests : req[r].kind = "rzporder" /\ req[r].pc = "done" /\ req[r].result = 403
  /\ \E call \in gatewayLog : call.api = "orders.create"

\* ---- sessions: claims ---------------------------------------------------------
\* C15: a refresh is let through only with a token that is one of the user's
\* refresh tokens, its save succeeds only while that is still so, and once it
\* has succeeded the token presented is no longer one of the user's refresh
\* tokens, so that a later refresh with it is refused.
C15_RotatedTokenIsGone ==
  [][\A r \in Requests :
       (req'[r] # req[r] /\ req'[r].kind = "refresh") =>
       /\ \A token \in Tokens :
            (RefreshStart(r, token) /\ req'[r].pc = "save")
              => TokenExists(accounts[token[1]].refreshTokens, token)
       /\ (RefreshSave(r) /\ req'[r].result = 200) =>
            /\ TokenExists(accounts[req[r].caller].refreshTokens, req[r].token)
            /\ TokenExists(accounts'[req[r].caller].refreshTokens, req[r].issued)
            /\ ~TokenExists(accounts'[req[r].caller].refreshTokens, req[r].token)]_vars

\* C16: the save of a logout that names a token leaves the caller with the
\* tokens the database had, in their order, without the one named; the save of
\* a logout that names none leaves the caller without tokens; neither changes
\* the tokens of another user, and no other step of a logout changes any.
C16_LogoutRemovesOnlyNamedToken ==
  [][\A r \in Requests :
       (req'[r] # req[r] /\ req'[r].kind = "logout") =>
       /\ \A u \in Users, token \in Tokens \cup {NoToken} :
            LogoutStart(r, u, token) => accounts' = accounts
       /\ LogoutSave(r) =>
            LET u == req[r].caller IN
            /\ \A w \in Users \ {u} : accounts'[w] = accounts[w]
            /\ req'[r].result = 200 =>
                 accounts'[u].refreshTokens =
                   IF req[r].token = NoToken THEN <<>>
                   ELSE SelectSeq(accounts[u].refreshTokens, LAMBDA t : t # req[r].token)
            /\ req'[r].result # 200 => accounts' = accounts]_vars

\* a logout that named one of the caller's two tokens was answered 200; the
\* caller has the other one left, and the other user is logged in
C16_Witness ==
  \E r \in Requests :
    /\ req[r].kind = "logout" /\ req[r].pc = "done" /\ req[r].result = 200
    /\ req[r].token # NoToken /\ req[r].token[1] = req[r].caller
    /\ Len(accounts[req[r].caller].refreshTokens) = 1
    /\ accounts[req[r].caller].refreshTokens[1] # req[r].token
    /\ \E w \in Users \ {req[r].caller} : Len(accounts[w].refreshTokens) > 0

\* C17: the write that marks a backup code used, after which the login goes
\* on to succeed, is made only for a code the database does not hold as used:
\* no backup code lets a second login through.
C17_BackupCodeUsedOnce ==
  [][\A r \in Requests :
       (LoginUseCode(r) /\ req'[r].pc = "reset")
         => ~accounts[req[r].caller].twoFactorBackupCodes[req[r].idx].used]_vars

\* C18: a login with the right password for an account that is locked is
\* answered 423 at once, carries no token, and leaves every account, the
\* user's refresh tokens included, as it was.
C18_LockedLoginRejected ==
  [][\A r \in Requests :
       (req'[r] # req[r] /\ req'[r].kind = "login") =>
       \A u \in Users, code \in TwoFactorCodes :
         (accounts[u].lock = "locked" /\ LoginStart(r, u, TRUE, code)) =>
            /\ req'[r].pc = "done" /\ req'[r].result = 423
            /\ req'[r].issued = NoToken
            /\ accounts' = accounts]_vars

\* a login was answered 423 on an account that is locked, while the other
\* user is logged in
C18_Witness ==
  /\ \E r \in Requests : req[r].kind = "login" /\ req[r].pc = "done" /\ req[r].result = 423
  /\ \E u \in Users : /\ accounts[u].lock = "locked"
                      /\ \E w \in Users \ {u} : Len(accounts[w].refreshTokens) > 0

\* ---- reviews: claims ----------------------------------------------------------
\* the places in a list of reviews that hold a review of the user
ReviewsOf(reviews, user) == {i \in 1..Len(reviews) : reviews[i].user = user}

\* C19: with addReview called one request after the other, every product
\* holds at most one review of each user and a rating.count that is the
\* number of its reviews, and the save of an addReview leaves the product
\* with exactly one review of the caller, which carries the rating and the
\* comment of that call, and with the reviews of the other users as they were.
C19_OneReviewPerUserLastWins ==
  [][/\ \A p \in Products :
          /\ \A u \in Users : Cardinality(ReviewsOf(catalog'[p].reviews, u)) <= 1
          /\ catalog'[p].rating.count = Len(catalog'[p].reviews)
     /\ \A r \in Requests :
          AddReviewSave(r) =>
            LET p == req[r].product
                mine == ReviewsOf(catalog'[p].reviews, req[r].caller) IN
            /\ req'[r].result = 200
            /\ Cardinality(mine) = 1
            /\ \A i \in mine : /\ catalog'[p].reviews[i].rating = req[r].rating
                               /\ catalog'[p].reviews[i].comment = req[r].comment
            /\ \A i \in 1..Len(catalog[p].reviews) :
                 catalog[p].reviews[i].user # req[r].caller
                   => catalog'[p].reviews[i] = catalog[p].reviews[i]]_vars

\* a user's second call replaced the rating of the first of a product's two
\* reviews
C19_Witness ==
  \E r \in Requests, p \in Products :
    /\ req[r].kind = "review" /\ req[r].pc = "done" /\ req[r].result = 200 /\ req[r].idx = 1
    /\ Len(catalog[p].reviews) = 2 /\ catalog[p].rating.count = 2
    /\ catalog[p].reviews[1].rating # catalog[p].reviews[2].rating

\* ---- C21 -----------------------------------------------------------------
\* C21: a request of create-razorpay-order or refund that is at its gateway
\* call makes that call in one step and is never at a gateway call again; it
\* goes on to write the order only with an id the gateway answered, and when
\* the gateway throws the request is answered 500 in that same step, which
\* leaves every order as it was (no gateway order id stored, paymentStatus not
\* set, no status entry pushed).  Nothing else calls the gateway.
AtGatewayCall(q) == q.pc \in {"orderCall", "refundCall"}

C21_GatewayFailureLeavesOrder ==
  [][
      /\ \A r \in Requests :
          (AtGatewayCall(req[r]) /\ req'[r] # req[r]) =>
             /\ \E call \in gatewayLog' :
                  /\ call.order = req[r].order /\ call.caller = req[r].caller
                  /\ call.api = IF req[r].pc = "orderCall" THEN "orders.create"
                                ELSE "payments.refund"
             /\ ~AtGatewayCall(req'[r])
             /\ req'[r].pc \in {"store", "save", "done"}
             /\ (req'[r].pc = "store" => req'[r].gid \in MintedOrderIds)
             /\ (req'[r].pc = "save" => req'[r].rid \in RefundIds)
             /\ (req'[r].pc = "done" => req'[r].result = 500 /\ orders' = orders)
      /\ (gatewayLog' # gatewayLog =>
            \E r \in Requests : AtGatewayCall(req[r]) /\ req'[r] # req[r])
      /\ \A r \in Requests :
           (req'[r] # req[r] /\ AtGatewayCall(req'[r])) => Free(r)]_vars

C21_Witness ==
  /\ \E r \in Requests :
       req[r].kind = "rzporder" /\ req[r].pc = "done" /\ req[r].result = 500
  /\ \E r \in Requests :
       req[r].kind = "refund" /\ req[r].pc = "done" /\ req[r].result = 500
  /\ orders[1].isPaid /\ orders[1].paymentStatus = "completed"
  /\ orders[1].paymentResult.razorpayOrderId = ""
  /\ \E call \in gatewayLog : call.api = "orders.create"
  /\ \E call \in gatewayLog : call.api = "payments.refund"

\* ---- C22 -----------------------------------------------------------------
\* C22: the amount of every razorpay.orders.create call is an integer of minor
\* units nearest to the order's totalPrice times 100 (no further from it than
\* half a minor unit), and for a totalPrice of at most two decimals it is
\* exactly 100 times the totalPrice (250.50 gives 25050).
C22_AmountInMinorUnits ==
  \A call \in gatewayLog :
    call.api = "orders.create" =>
      LET total == orders[call.order].totalPrice IN
      /\ call.amount * 1000 - total * 100 \in -500..500
      /\ total % 10 = 0 => call.amount * 10 = total

C22_Witness ==
  \E call \in gatewayLog :
    /\ call.api = "orders.create" /\ call.amount = 25050
    /\ orders[call.order].totalPrice = 250500

\* ---- C23 -----------------------------------------------------------------
\* C23: for a user with twoFactorEnabled whose account is not locked, a login
\* with the right password and no code is answered 200 requiresTwoFactor
\* without tokens and writes nothing; one with a code that is neither a valid
\* TOTP code nor an unused backup code goes to incLoginAttempts, which answers
\* 401 without tokens and counts the attempt (one up, or 1 after a lock that
\* ran out); a login goes on towards tokens only with a valid code, and a
\* refresh token is pushed for such a user only by a login that carried a
\* valid TOTP code or one of the user's backup codes.
CarriesValidCode(user, code) ==
  \/ TotpVerified(code)
  \/ \E i \in DOMAIN user.twoFactorBackupCodes :
       user.twoFactorBackupCodes[i].code = code /\ ~user.twoFactorBackupCodes[i].used

C24_PaidOnlyForOwnGatewayOrder ==
  [][\A r \in Requests :
       (req[r].kind = "verify" /\ req[r].pc = "save" /\ req'[r].pc = "done"
          /\ orders'[req[r].order].isPaid) =>
            orders[req[r].order].paymentResult.razorpayOrderId = req[r].gid]_vars

\* ---- C25 -----------------------------------------------------------------
\* C25: an order that is paid has paymentStatus completed or refunded, however
\* verify-payment and the payment.captured and payment.failed webhooks arrive.
C25_PaidHasSettledPaymentStatus ==
  \A o \in 1..Len(orders) :
    orders[o].isPaid => orders[o].paymentStatus \in {"completed", "refunded"}

\* ---- C26 -----------------------------------------------------------------
\* C26: with orders created and cancelled one request at a time, no product's
\* stock is ever below 0, also when two lines of an order name one product.
C26_StockNeverNegative ==
  \A p \in Products : stock[p] >= 0

\* ---- C27 -----------------------------------------------------------------
\* C27: the quantities of an order's lines go back to stock at most once.  The
\* one order there is took one unit of every product, so a stock above the
\* initial one is a second restock of it.
C27_RestockedAtMostOnce ==
  \A p \in Products : stock[p] <= InitialStock[p]

\* ---- C28 -----------------------------------------------------------------
\* C28: a POST /payments/refund that arrives for an order whose paymentStatus
\* is refunded is answered with an error at once, and the gateway's refund is
\* never called for such an order.
C28_RefundedOrderNotRefundedAgain ==
  [][/\ \A r \in Requests :
          (Free(r) /\ req'[r] # req[r] /\ req'[r].kind = "refund") =>
             \A u \in Users, o \in 1..Len(orders) :
                (orders[o].paymentStatus = "refunded" /\ RefundStart(r, u, o)) =>
                   req'[r].pc = "done" /\ req'[r].result >= 400
     /\ \A r \in Requests :
          (req[r].pc = "refundCall" /\ req'[r] # req[r]) =>
             orders[req[r].order].paymentStatus # "refunded"]_vars

\* ---- C29 -----------------------------------------------------------------
\* C29: a paid order's paymentResult holds a gateway payment id, whichever of
\* verify-payment and the payment.captured webhook paid it, and a refund at
\* its gateway call passes a payment id.
C29_PaidOrderHoldsPaymentId ==
  /\ \A o \in 1..Len(orders) :
       orders[o].isPaid => orders[o].paymentResult.razorpayPaymentId \in PaymentIds
  /\ \A r \in Requests :
       (req[r].kind = "refund" /\ req[r].pc = "refundCall") => req[r].pid \in PaymentIds

\* ---- C30 -----------------------------------------------------------------
\* C30: when the save of a refresh succeeds while another refresh that
\* presented the same token is in flight, the other one can no longer succeed
\* (its save is refused and writes nothing), the token presented is no longer
\* one of the user's refresh tokens, and exactly one of the user's refresh
\* tokens is one the two requests minted.
ConcurrentRefreshes(r, q) ==
  /\ q # r
  /\ req[r].kind = "refresh" /\ req[r].pc = "save"
  /\ req[q].kind = "refresh" /\ req[q].pc = "save"
  /\ req[q].token = req[r].token

C30_ConcurrentRefreshRotatesOnce ==
  [][/\ \A r, q \in Requests :
          (ConcurrentRefreshes(r, q) /\ req'[r].pc = "done" /\ req'[r].result = 200) =>
             LET tokens == accounts'[req[r].caller].refreshTokens IN
             /\ req'[q].pc = "save" /\ req'[q].stale
             /\ ~TokenExists(tokens, req[r].token)
             /\ Cardinality({i \in DOMAIN tokens :
                               tokens[i] \in {req[r].issued, req[q].issued}}) = 1
     /\ \A q \in Requests :
          (req[q].kind = "refresh" /\ req[q].pc = "save" /\ req[q].stale
             /\ req'[q] # req[q]) =>
               req'[q].pc = "done" /\ req'[q].result = 500 /\ accounts' = accounts]_vars
====
